---- MODULE Spec2Model ----
(***************************************************************************)
(* Bezier path arithmetic of flowbetween's curves crate: GraphPath         *)
(* (from_path, merge, collide / detect_collisions) and the `add'           *)
(* operation (set_exterior_by_adding, path_add).                           *)
(*                                                                         *)
(* Coordinates are fixed-point: a point is <<x, y>> with x and y integers  *)
(* counting 1/Scale of a unit, so that the thirds of a line, the midpoint  *)
(* of a line and the factors 0.33 / 0.66 are exact on grid points.         *)
(* Node and edge indices are 0-based as in the source; node i of a graph   *)
(* is element i+1 of the sequence that models Vec<...>.                    *)
(***************************************************************************)
EXTENDS Integers, Sequences, FiniteSets, TLC

\* ------------------------------------------------------------------------
\* Coordinates
\* ------------------------------------------------------------------------

\* Units per 1.0: thirds (3) of hundredths (100) are whole numbers.
Scale == 3 * 100

\* const CLOSE_DISTANCE: f64 = 0.01, in units of 1/Scale (0.01 * 300).
CLOSE_DISTANCE == 3

\* Point::origin()
Origin == <<0, 0>>

\* A grid point of the plane.
Pt(x, y) == <<x * Scale, y * Scale>>

\* Point - Point
Sub(a, b) == <<a[1] - b[1], a[2] - b[2]>>

\* Point + Point
Add(a, b) == <<a[1] + b[1], a[2] + b[2]>>

\* Point * f64 for a factor given in hundredths (0.33 is 33).
MulHundredths(a, h) == <<(a[1] * h) \div 100, (a[2] * h) \div 100>>

\* The square of Coordinate::distance_to.
DistanceSquared(a, b) ==
    LET d == Sub(a, b) IN d[1] * d[1] + d[2] * d[2]

\* a.distance_to(b) < CLOSE_DISTANCE
IsClose(a, b) == DistanceSquared(a, b) < CLOSE_DISTANCE * CLOSE_DISTANCE

\* The z component of the cross product of two vectors.
Cross(a, b) == a[1] * b[2] - a[2] * b[1]

\* The greatest common divisor of two numbers >= 0, not both 0.
RECURSIVE Gcd(_, _)
Gcd(a, b) == IF b = 0 THEN a ELSE Gcd(b, a % b)

\* ------------------------------------------------------------------------
\* Input paths (the BezierPath capability): a start point and the ordered
\* (control point 1, control point 2, end point) triples.
\* ------------------------------------------------------------------------

\* The curve section that draws the straight line from a to b.
LineTo(a, b) ==
    LET d == Sub(b, a)
    IN  << Add(a, <<d[1] \div 3, d[2] \div 3>>),
           Add(a, <<(2 * d[1]) \div 3, (2 * d[2]) \div 3>>),
           b >>

\* The path that starts at verts[1] and draws a line to each later vertex.
Polyline(verts) ==
    [ start_point |-> verts[1],
      points      |-> [i \in 1..(Len(verts) - 1) |-> LineTo(verts[i], verts[i + 1])] ]

\* BezierPathFactory::from_path for the output type POut: the output path is
\* the pair (start point, sections), as SimpleBezierPath is.
POutFromPath(path) == <<path.start_point, path.points>>

\* ------------------------------------------------------------------------
\* GraphPath
\* ------------------------------------------------------------------------

Kinds == {"Uncategorised", "Interior", "Exterior"}

\* GraphPathEdge::Exterior(target) / GraphPathEdge::Interior(target), with
\* the PathLabel source the labelled graph of add.rs attaches ("None" while
\* the edge carries no label).
Edge(kind, target, label) == [kind |-> kind, target |-> target, label |-> label]

\* One element of GraphPath::points: (cp1, cp2, end point, edges).
Node(cp1, cp2, p, edges) == [cp1 |-> cp1, cp2 |-> cp2, p |-> p, edges |-> edges]

\* GraphPath::new()
NewGraph == <<>>

\* GraphPath::num_points
NumPoints(g) == Len(g)

\* GraphPathEdge::set_target
SetTarget(edge, new_target) == Edge(edge.kind, new_target, edge.label)

\* Whether target index t names a node of g (self.points[t] does not panic).
InArena(g, t) == t >= 0 /\ t < Len(g)

\* from_path without line 126: the edge back to node 0 is not added.
FromPathWithoutClosingEdge(path) ==
    LET start_point  == path.start_point
        n            == Len(path.points)
        last_end     == path.points[n][3]
        closes       == IsClose(start_point, last_end)
        close_vector == Sub(last_end, start_point)
        count        == IF n = 0 THEN 0 ELSE IF closes THEN n ELSE n + 1
        cp1_of_0     == IF closes THEN path.points[n][1]
                        ELSE MulHundredths(close_vector, 33)
        cp2_of_0     == IF closes THEN path.points[n][2]
                        ELSE MulHundredths(close_vector, 66)
        forward(i)   == IF i <= n THEN <<Edge("Exterior", i, "None")>> ELSE <<>>
    IN  [i \in 1..count |->
            IF i = 1
            THEN Node(cp1_of_0, cp2_of_0, start_point, forward(i))
            ELSE Node(path.points[i - 1][1], path.points[i - 1][2],
                      path.points[i - 1][3], forward(i))]

\* from_path without line 129: the start node of a path that has no section
\* stays in the graph.
FromPathKeepsStartPoint(path) ==
    LET start_point  == path.start_point
        n            == Len(path.points)
        last_end     == path.points[n][3]
        closes       == n > 0 /\ IsClose(start_point, last_end)
        close_vector == Sub(last_end, start_point)
        count        == IF closes THEN n ELSE n + 1
        cp1_of_0     == IF n = 0 THEN Origin
                        ELSE IF closes THEN path.points[n][1]
                        ELSE MulHundredths(close_vector, 33)
        cp2_of_0     == IF n = 0 THEN Origin
                        ELSE IF closes THEN path.points[n][2]
                        ELSE MulHundredths(close_vector, 66)
        forward(i)   == IF i <= n THEN <<Edge("Exterior", i, "None")>> ELSE <<>>
        closing(i)   == IF n > 0 /\ i = count
                        THEN <<Edge("Exterior", 0, "None")>> ELSE <<>>
    IN  [i \in 1..count |->
            IF i = 1
            THEN Node(cp1_of_0, cp2_of_0, start_point, forward(i) \o closing(i))
            ELSE Node(path.points[i - 1][1], path.points[i - 1][2],
                      path.points[i - 1][3], forward(i) \o closing(i))]

\* from_path without lines 116-117: in the closing case the node pushed for
\* the last section stays, and gets the edge back to node 0.
FromPathKeepsLastNode(path) ==
    LET start_point  == path.start_point
        n            == Len(path.points)
        last_end     == path.points[n][3]
        closes       == IsClose(start_point, last_end)
        close_vector == Sub(last_end, start_point)
        count        == IF n = 0 THEN 0 ELSE n + 1
        cp1_of_0     == IF closes THEN path.points[n][1]
                        ELSE MulHundredths(close_vector, 33)
        cp2_of_0     == IF closes THEN path.points[n][2]
                        ELSE MulHundredths(close_vector, 66)
        forward(i)   == IF i <= n THEN <<Edge("Exterior", i, "None")>> ELSE <<>>
        closing(i)   == IF i = count THEN <<Edge("Exterior", 0, "None")>> ELSE <<>>
    IN  [i \in 1..count |->
            IF i = 1
            THEN Node(cp1_of_0, cp2_of_0, start_point, forward(i) \o closing(i))
            ELSE Node(path.points[i - 1][1], path.points[i - 1][2],
                      path.points[i - 1][3], forward(i) \o closing(i))]

\* from_path with line 126 pushing an Interior edge: the edge back to node 0
\* does not carry the tag of the other edges.
FromPathInteriorClosingEdge(path) ==
    LET start_point  == path.start_point
        n            == Len(path.points)
        last_end     == path.points[n][3]
        closes       == IsClose(start_point, last_end)
        close_vector == Sub(last_end, start_point)
        count        == IF n = 0 THEN 0 ELSE IF closes THEN n ELSE n + 1
        cp1_of_0     == IF closes THEN path.points[n][1]
                        ELSE MulHundredths(close_vector, 33)
        cp2_of_0     == IF closes THEN path.points[n][2]
                        ELSE MulHundredths(close_vector, 66)
        forward(i)   == IF i <= n THEN <<Edge("Exterior", i, "None")>> ELSE <<>>
        closing(i)   == IF i = count THEN <<Edge("Interior", 0, "None")>> ELSE <<>>
    IN  [i \in 1..count |->
            IF i = 1
            THEN Node(cp1_of_0, cp2_of_0, start_point, forward(i) \o closing(i))
            ELSE Node(path.points[i - 1][1], path.points[i - 1][2],
                      path.points[i - 1][3], forward(i) \o closing(i))]

\* GraphPath::from_path.  The loop of lines 95-105 pushes one node per
\* section after the start node and gives node i the edge to node i+1; the
\* result is written node by node (seq index i is node i-1).
FromPath(path) ==
    LET start_point  == path.start_point
        n            == Len(path.points)
        \* the node pushed last by the loop (line 110 reads its end point)
        last_end     == path.points[n][3]
        \* line 110
        closes       == IsClose(start_point, last_end)
        \* line 120
        close_vector == Sub(last_end, start_point)
        \* lines 116-117 pop the last node; line 129 pops the start node
        count        == IF n = 0 THEN 0 ELSE IF closes THEN n ELSE n + 1
        \* lines 88, 112-113, 121-122: the control points node 0 ends with
        cp1_of_0     == IF closes THEN path.points[n][1]
                        ELSE MulHundredths(close_vector, 33)
        cp2_of_0     == IF closes THEN path.points[n][2]
                        ELSE MulHundredths(close_vector, 66)
        \* line 100: pushed for every section, also for the last one
        forward(i)   == IF i <= n THEN <<Edge("Exterior", i, "None")>> ELSE <<>>
        \* line 126: pushed on the node that is last after the pop
        closing(i)   == IF i = count THEN <<Edge("Exterior", 0, "None")>> ELSE <<>>
    IN  [i \in 1..count |->
            IF i = 1
            THEN Node(cp1_of_0, cp2_of_0, start_point, forward(i) \o closing(i))
            ELSE Node(path.points[i - 1][1], path.points[i - 1][2],
                      path.points[i - 1][3], forward(i) \o closing(i))]

\* merge that loses the first node of the graph merged in.
MergeDropsANode(self, merge_path) ==
    LET offset == Len(self)
    IN  [i \in 1..(offset + Len(merge_path) - (IF Len(merge_path) > 0 THEN 1 ELSE 0)) |->
            IF i <= offset
            THEN self[i]
            ELSE LET node == merge_path[i - offset + 1]
                 IN  Node(node.cp1, node.cp2, node.p,
                          [e \in 1..Len(node.edges) |->
                              SetTarget(node.edges[e], node.edges[e].target + offset)])]

\* merge without line 180: the edge targets of the graph merged in are kept.
MergeKeepsTargets(self, merge_path) ==
    LET offset == Len(self)
    IN  [i \in 1..(offset + Len(merge_path)) |->
            IF i <= offset THEN self[i] ELSE merge_path[i - offset]]

\* merge with line 180 adding the length of the graph merged in, not the
\* length of self, to the edge targets.
MergeOffsetsByOwnLength(self, merge_path) ==
    LET offset == Len(merge_path)
    IN  [i \in 1..(Len(self) + Len(merge_path)) |->
            IF i <= Len(self)
            THEN self[i]
            ELSE LET node == merge_path[i - Len(self)]
                 IN  Node(node.cp1, node.cp2, node.p,
                          [e \in 1..Len(node.edges) |->
                              SetTarget(node.edges[e], node.edges[e].target + offset)])]

\* GraphPath::merge
Merge(self, merge_path) ==
    LET offset == Len(self)
    IN  [i \in 1..(offset + Len(merge_path)) |->
            IF i <= offset
            THEN self[i]
            ELSE LET node == merge_path[i - offset]
                 IN  Node(node.cp1, node.cp2, node.p,
                          [e \in 1..Len(node.edges) |->
                              SetTarget(node.edges[e], node.edges[e].target + offset)])]

\* ------------------------------------------------------------------------
\* GraphEdge as a BezierCurve, and detect_collisions / collide
\* ------------------------------------------------------------------------

\* An edge is named by its start node and its position in that node's edge
\* list; EdgeEnd is the target the edge stores.
EdgeRefs(g) ==
    UNION { {<<i, e>> : e \in 0..(Len(g[i + 1].edges) - 1)} : i \in 0..(Len(g) - 1) }
EdgeAt(g, r)  == g[r[1] + 1].edges[r[2] + 1]
EdgeEnd(g, r) == EdgeAt(g, r).target

\* GraphEdge::start_point / end_point / control_points: the control points
\* of an edge are stored on its end node.
EdgeStartPoint(g, start_idx)  == g[start_idx + 1].p
EdgeEndPoint(g, end_idx)      == g[end_idx + 1].p
EdgeControlPoints(g, end_idx) == <<g[end_idx + 1].cp1, g[end_idx + 1].cp2>>

\* BezierCurve::fast_bounding_box: the box <<min, max>> around the start
\* point, the end point and the two control points.
FastBoundingBox(g, start_idx, end_idx) ==
    LET pts == { EdgeStartPoint(g, start_idx), EdgeEndPoint(g, end_idx),
                 EdgeControlPoints(g, end_idx)[1], EdgeControlPoints(g, end_idx)[2] }
        xs  == {q[1] : q \in pts}
        ys  == {q[2] : q \in pts}
        lo(S) == CHOOSE m \in S : \A o \in S : m <= o
        hi(S) == CHOOSE m \in S : \A o \in S : m >= o
    IN  << <<lo(xs), lo(ys)>>, <<hi(xs), hi(ys)>> >>

\* BoundingBox::overlaps
Overlaps(b1, b2) ==
    /\ ~(b1[1][1] > b2[2][1] \/ b2[1][1] > b1[2][1])
    /\ ~(b1[1][2] > b2[2][2] \/ b2[1][2] > b1[2][2])

\* The order in which the four nested loops of detect_collisions visit the
\* pairs <<src_idx, src_edge, tgt_idx, tgt_edge>>.
VisitedBefore(a, b) ==
    \E k \in 1..4 : a[k] < b[k] /\ \A j \in 1..(k - 1) : a[j] = b[j]

\* GraphPath::detect_collisions over collide_from = from_lo..from_hi-1 and
\* collide_to = to_lo..to_hi-1.  The graph is not changed: the collisions
\* found by curve_intersects_curve are dropped.  The result records whether
\* a read of self.points[..] was out of bounds (a panic), the pairs whose
\* bounding boxes were compared and the pairs handed to the solver.
DetectCollisions(g, from_lo, from_hi, to_lo, to_hi) ==
    LET pairs == { <<s[1], s[2], t[1], t[2]>> :
                     s \in {r \in EdgeRefs(g) : r[1] >= from_lo /\ r[1] < from_hi},
                     t \in {r \in EdgeRefs(g) : r[1] >= to_lo /\ r[1] < to_hi} }
        \* line 205
        visited == {q \in pairs : ~(q[1] = q[3] /\ q[2] = q[4])}
        src_end(q) == EdgeEnd(g, <<q[1], q[2]>>)
        tgt_end(q) == EdgeEnd(g, <<q[3], q[4]>>)
        \* lines 214-215 read points[src_end_idx] and points[tgt_end_idx]
        faults(q)  == ~InArena(g, src_end(q)) \/ ~InArena(g, tgt_end(q))
        faulting   == {q \in visited : faults(q)}
        \* the pairs reached before the first read out of bounds
        compared   == {q \in visited \ faulting :
                         \A f \in faulting : VisitedBefore(q, f)}
    IN  [ panicked |-> faulting # {},
          compared |-> compared,
          solved   |-> {q \in compared :
                          Overlaps(FastBoundingBox(g, q[1], src_end(q)),
                                   FastBoundingBox(g, q[3], tgt_end(q)))},
          graph    |-> g ]

\* GraphPath::collide
Collide(self, collide_path) ==
    LET collision_offset == Len(self)
        merged           == Merge(self, collide_path)
        total_points     == Len(merged)
    IN  DetectCollisions(merged, 0, collision_offset, collision_offset, total_points)

\* One step of GraphPath::from_merged_paths: the graph of the next path,
\* every edge labelled with its source, merged into the graph so far.
WithLabel(g, label) ==
    [i \in 1..Len(g) |->
        Node(g[i].cp1, g[i].cp2, g[i].p,
             [e \in 1..Len(g[i].edges) |->
                 Edge(g[i].edges[e].kind, g[i].edges[e].target, label)])]

MergeLabelledPath(so_far, path, label) == Merge(so_far, WithLabel(FromPath(path), label))

\* ------------------------------------------------------------------------
\* The labelled graph operations set_exterior_by_adding calls
\* ------------------------------------------------------------------------

\* Edge references in the order all_edges() yields them: node by node, and
\* within a node in the order of its edge list.
RefBefore(a, b) == a[1] < b[1] \/ (a[1] = b[1] /\ a[2] < b[2])

\* A finite set of edge references as a sequence in all_edges order.
RECURSIVE SortedRefs(_)
SortedRefs(S) ==
    IF S = {} THEN <<>>
    ELSE LET first == CHOOSE x \in S : \A y \in S \ {x} : RefBefore(x, y)
         IN  <<first>> \o SortedRefs(S \ {first})

\* A finite set of numbers as an ascending sequence.
RECURSIVE SortedNumbers(_)
SortedNumbers(S) ==
    IF S = {} THEN <<>>
    ELSE LET first == CHOOSE x \in S : \A y \in S : x <= y
         IN  <<first>> \o SortedNumbers(S \ {first})

\* GraphPath::all_edges
AllEdges(g) == SortedRefs(EdgeRefs(g))

\* GraphPath::edge_kind / edge_label
EdgeKind(g, r)  == EdgeAt(g, r).kind
EdgeLabel(g, r) == EdgeAt(g, r).label

\* Lines 25-28 with .nth(1) for .nth(0): the first Uncategorised edge is
\* passed over.
UncategorisedEdgesAfterFirst(g) ==
    LET all == SelectSeq(SortedRefs(EdgeRefs(g)),
                         LAMBDA r : g[r[1] + 1].edges[r[2] + 1].kind = "Uncategorised")
    IN  IF all = <<>> THEN <<>> ELSE Tail(all)

\* The edges set_exterior_by_adding still has to categorise, in all_edges order.
UncategorisedEdges(g) ==
    SelectSeq(AllEdges(g), LAMBDA r : EdgeKind(g, r) = "Uncategorised")

\* BezierCurve::point_at_pos(0.5) of the edge from start_idx to end_idx:
\* de Casteljau at 1/2 is (P0 + 3 P1 + 3 P2 + P3) / 8.
PointAtHalf(g, start_idx, end_idx) ==
    LET p0 == EdgeStartPoint(g, start_idx)
        c  == EdgeControlPoints(g, end_idx)
        p3 == EdgeEndPoint(g, end_idx)
    IN  << (p0[1] + 3 * c[1][1] + 3 * c[2][1] + p3[1]) \div 8,
           (p0[2] + 3 * c[1][2] + 3 * c[2][2] + p3[2]) \div 8 >>

\* Where the ray from `from' through `to' meets the edge r, whose curve is
\* taken to be the straight line between its end points (the control points
\* of every edge the classifier is run on lie on that line).  The ray is
\* from + t * (to - from) for t >= 0 and the edge start + s * (end - start)
\* for 0 <= s <= 1; t is the fraction tn / dn in lowest terms, dn > 0.
RayHit(g, from, to, r) ==
    LET a     == EdgeStartPoint(g, r[1])
        b     == EdgeEndPoint(g, EdgeEnd(g, r))
        d     == Sub(to, from)
        e     == Sub(b, a)
        w     == Sub(a, from)
        denom == Cross(d, e)
        sg    == IF denom < 0 THEN -1 ELSE 1
        tn    == sg * Cross(w, e)
        sn    == sg * Cross(w, d)
        dn    == sg * denom
        hit   == dn > 0 /\ sn >= 0 /\ sn <= dn /\ tn >= 0
        low   == IF hit THEN Gcd(tn, dn) ELSE 1
    IN  [ hit |-> hit, tn |-> tn \div low, dn |-> dn \div low ]

\* GraphPath::ray_collisions: every crossing of the ray with an edge, in
\* order from the start of the ray.  Edges met at one and the same ray
\* position form one collision (an intersection when there are several).
RayCollisions(g, from, to) ==
    LET at      == [r \in EdgeRefs(g) |-> RayHit(g, from, to, r)]
        hits    == {r \in EdgeRefs(g) : at[r].hit}
        nearer(x, y) == at[x].tn * at[y].dn < at[y].tn * at[x].dn
        rank    == [x \in hits |-> Cardinality({y \in hits : nearer(y, x)})]
        ranks   == SortedNumbers({rank[x] : x \in hits})
    IN  [k \in 1..Len(ranks) |->
            SortedRefs({x \in hits : rank[x] = ranks[k]})]

\* GraphRayCollision::is_intersection
IsIntersection(collision) == Len(collision) > 1

\* Whether r2 is the curve of r1 traversed in the opposite direction.
IsReverseOf(g, r1, r2) ==
    /\ r1 # r2
    /\ InArena(g, EdgeEnd(g, r1)) /\ InArena(g, EdgeEnd(g, r2))
    /\ EdgeStartPoint(g, r2[1]) = EdgeEndPoint(g, EdgeEnd(g, r1))
    /\ EdgeEndPoint(g, EdgeEnd(g, r2)) = EdgeStartPoint(g, r1[1])
    /\ EdgeControlPoints(g, EdgeEnd(g, r2))[1] = EdgeControlPoints(g, EdgeEnd(g, r1))[2]
    /\ EdgeControlPoints(g, EdgeEnd(g, r2))[2] = EdgeControlPoints(g, EdgeEnd(g, r1))[1]

\* GraphPath::set_edge_kind_connected: the edge, and every edge that is the
\* same curve traversed the other way, get the kind.
SetEdgeKindConnected(g, edge, kind) ==
    [i \in 1..Len(g) |->
        Node(g[i].cp1, g[i].cp2, g[i].p,
             [e \in 1..Len(g[i].edges) |->
                 IF <<i - 1, e - 1>> = edge \/ IsReverseOf(g, edge, <<i - 1, e - 1>>)
                 THEN Edge(kind, g[i].edges[e].target, g[i].edges[e].label)
                 ELSE g[i].edges[e]])]

\* ------------------------------------------------------------------------
\* Path extraction (GraphPath::exterior_paths)
\* ------------------------------------------------------------------------

ExteriorUnvisited(g, visited) ==
    {r \in EdgeRefs(g) : EdgeKind(g, r) = "Exterior" /\ r \notin visited}

FirstRef(S) == CHOOSE r \in S : \A o \in S \ {r} : RefBefore(r, o)

\* Follows Exterior edges from `edge' until the walk is back at start_node,
\* meets a node with no unvisited Exterior edge, or an edge whose target is
\* no node of the graph.  nodes are the nodes entered so far.
RECURSIVE Walk(_, _, _, _, _)
Walk(g, start_node, edge, visited, nodes) ==
    LET target == EdgeEnd(g, edge)
        seen   == visited \cup {edge}
        next   == {r \in ExteriorUnvisited(g, seen) : r[1] = target}
    IN  IF ~InArena(g, target)
        THEN [status |-> "panicked", visited |-> seen, nodes |-> nodes]
        ELSE IF target = start_node
        THEN [status |-> "closed", visited |-> seen, nodes |-> Append(nodes, target)]
        ELSE IF next = {}
        THEN [status |-> "open", visited |-> seen, nodes |-> Append(nodes, target)]
        ELSE Walk(g, start_node, FirstRef(next), seen, Append(nodes, target))

\* The output path of a closed walk: POut::from_points(start, sections).
WalkToPath(g, start_node, nodes) ==
    << g[start_node + 1].p,
       [k \in 1..Len(nodes) |->
           <<g[nodes[k] + 1].cp1, g[nodes[k] + 1].cp2, g[nodes[k] + 1].p>>] >>

\* exterior_paths that also emits the walks that did not come back to the
\* node they started from.
RECURSIVE ExtractFromKeepsOpenWalks(_, _, _)
ExtractFromKeepsOpenWalks(g, visited, paths) ==
    IF ExteriorUnvisited(g, visited) = {}
    THEN [panicked |-> FALSE, paths |-> paths]
    ELSE LET start == FirstRef(ExteriorUnvisited(g, visited))
             walk  == Walk(g, start[1], start, visited, <<>>)
         IN  IF walk.status = "panicked"
             THEN [panicked |-> TRUE, paths |-> paths]
             ELSE ExtractFromKeepsOpenWalks(g, walk.visited,
                              Append(paths, WalkToPath(g, start[1], walk.nodes)))

RECURSIVE ExtractFrom(_, _, _)
ExtractFrom(g, visited, paths) ==
    IF ExteriorUnvisited(g, visited) = {}
    THEN [panicked |-> FALSE, paths |-> paths]
    ELSE LET start == FirstRef(ExteriorUnvisited(g, visited))
             walk  == Walk(g, start[1], start, visited, <<>>)
         IN  IF walk.status = "panicked"
             THEN [panicked |-> TRUE, paths |-> paths]
             ELSE ExtractFrom(g, walk.visited,
                              IF walk.status = "closed"
                              THEN Append(paths, WalkToPath(g, start[1], walk.nodes))
                              ELSE paths)

\* GraphPath::exterior_paths
ExteriorPaths(g) == ExtractFrom(g, {}, <<>>)

\* ------------------------------------------------------------------------
\* path_add up to the graph it hands to the classifier
\* ------------------------------------------------------------------------

\* The short circuit with line 100 returning path2 as line 96 does.
ShortCircuitToPath2(p1, p2) == [i \in 1..Len(p2) |-> <<p2[i].start_point, p2[i].points>>]

\* path_add, lines 95-103: the short circuit taken when a side is empty.
ShortCircuit(p1, p2) ==
    IF Len(p1) = 0
    THEN [i \in 1..Len(p2) |-> POutFromPath(p2[i])]
    ELSE [i \in 1..Len(p1) |-> POutFromPath(p1[i])]

\* ------------------------------------------------------------------------
\* Inputs
\* ------------------------------------------------------------------------

\* The most paths one call of path_add is given, both sides together.
MaxPaths == 3

\* How many edges of a graph handed straight to set_exterior_by_adding are
\* already categorised.
MaxCategorised == 1

\* How many iterations past the number of edges the classifier loop is
\* followed.
MaxOverrun == 1

SquareA   == <<Pt(0, 0), Pt(10, 0), Pt(10, 10), Pt(0, 10)>>
SquareB   == <<Pt(5, 5), Pt(15, 5), Pt(15, 15), Pt(5, 15)>>
SquareFar == <<Pt(20, 20), Pt(30, 20), Pt(30, 30), Pt(20, 30)>>
Triangle  == <<Pt(20, 0), Pt(30, 0), Pt(25, 8)>>

\* The path through verts that ends with a section back to its first point.
ClosedPolyline(verts) == Polyline(Append(verts, verts[1]))

\* The paths path_add is called with: squares left open (three sections)
\* and closed by a last section to the start point, a triangle whose last
\* section ends 2/300 from its start point, and a path that is one point.
InputPaths ==
    { Polyline(SquareA), ClosedPolyline(SquareA),
      Polyline(SquareB), ClosedPolyline(SquareB),
      Polyline(SquareFar), ClosedPolyline(SquareFar),
      Polyline(Append(Triangle, Add(Triangle[1], <<2, 0>>))),
      Polyline(<<Pt(3, 3)>>) }

PathLists(n) == UNION { [1..k -> InputPaths] : k \in 0..n }

\* A closed polygon as a labelled graph whose edges are all Uncategorised:
\* node i is vertex i, holds the control points of the line that arrives at
\* it and has the one edge to the next vertex.
Ring(verts, label) ==
    LET n == Len(verts)
        prev(i) == IF i = 1 THEN n ELSE i - 1
    IN  [i \in 1..n |->
            Node(LineTo(verts[prev(i)], verts[i])[1],
                 LineTo(verts[prev(i)], verts[i])[2],
                 verts[i],
                 <<Edge("Uncategorised", i % n, label)>>)]

Reversed(verts) == [i \in 1..Len(verts) |-> verts[Len(verts) + 1 - i]]

SquareNear  == <<Pt(1, 1), Pt(11, 1), Pt(11, 11), Pt(1, 11)>>
SquareAway  == <<Pt(20, 1), Pt(30, 1), Pt(30, 11), Pt(20, 11)>>
SquareInner == <<Pt(3, 3), Pt(7, 3), Pt(7, 7), Pt(3, 7)>>
SquareOver  == <<Pt(6, 6), Pt(16, 6), Pt(16, 16), Pt(6, 16)>>
SquareOnOrigin == <<Pt(-5, 0), Pt(5, 0), Pt(5, 10), Pt(-5, 10)>>
SquareAroundOrigin == <<Pt(-5, -5), Pt(5, -5), Pt(5, 5), Pt(-5, 5)>>

\* The labelled graphs set_exterior_by_adding is called on directly: two
\* squares apart, one square inside the other, two squares that overlap
\* (the middle of an edge of one lying on an edge of the other), one square
\* drawn in both directions, a square with the origin in the middle of an
\* edge, and a square with the origin inside it.
LabelledGraphs ==
    { Merge(Ring(SquareNear, "Path1"), Ring(SquareAway, "Path2")),
      Merge(Ring(SquareNear, "Path1"), Ring(SquareInner, "Path2")),
      Merge(Ring(SquareNear, "Path1"), Ring(SquareOver, "Path2")),
      Merge(Ring(SquareNear, "Path1"), Ring(Reversed(SquareNear), "Path2")),
      Merge(Ring(SquareOnOrigin, "Path1"), Ring(SquareAway, "Path2")),
      Merge(Ring(SquareAroundOrigin, "Path1"), Ring(SquareAway, "Path2")) }

\* g with the edges of refs (in all_edges order) categorised as kinds says.
RECURSIVE Categorised(_, _, _)
Categorised(g, refs, kinds) ==
    IF refs = <<>> THEN g
    ELSE Categorised(SetEdgeKindConnected(g, Head(refs), kinds[Head(refs)]),
                     Tail(refs), kinds)

\* ------------------------------------------------------------------------
\* State
\* ------------------------------------------------------------------------

VARIABLES
    caller,         \* the function that was called: "path_add" or "set_exterior_by_adding"
    pc,             \* where the call is
    path1, path2,   \* the arguments of path_add
    side,           \* the graph from_merged_paths is building
    consumed,       \* how many paths of the side it has merged in
    merged_path,    \* path_add's merged_path / the classifier's self
    compared,       \* the edge pairs detect_collisions compared the boxes of
    solved,         \* the edge pairs it gave to curve_intersects_curve
    iterations,     \* times the body of the classifier's outer loop was entered
    collisions,     \* the collisions of the current ray still to visit
    collision,      \* the edges of the current collision still to visit
    was_inside, is_intersection, inside_path1, inside_path2,
    result,         \* the value path_add returns
    threads         \* the locals of each of the calls of path_add that run
                    \* at the same time, one call per thread

vars == << caller, pc, path1, path2, side, consumed, merged_path, compared, solved,
           iterations, collisions, collision, was_inside, is_intersection,
           inside_path1, inside_path2, result, threads >>

\* What no step of the one call followed on its own changes: its arguments,
\* and the calls on other threads.
pathVars == << path1, path2, threads >>
rayVars  == << collisions, collision, was_inside, is_intersection,
               inside_path1, inside_path2 >>
logVars  == << compared, solved >>

NoRay ==
    /\ collisions = <<>> /\ collision = <<>>
    /\ was_inside = FALSE /\ is_intersection = FALSE
    /\ inside_path1 = FALSE /\ inside_path2 = FALSE

\* A call of path_add with any lists of input paths.
InitPathAdd ==
    /\ caller = "path_add"
    /\ pc = "path_add"
    /\ \E k1 \in 0..MaxPaths :
         /\ path1 \in PathLists(k1)
         /\ path2 \in PathLists(MaxPaths - Len(path1))
    /\ merged_path = NewGraph

\* A call of set_exterior_by_adding on a labelled graph, some of whose edges
\* may be categorised already.
InitClassify ==
    /\ caller = "set_exterior_by_adding"
    /\ pc = "loop"
    /\ path1 = <<>> /\ path2 = <<>>
    /\ \E g \in LabelledGraphs :
         \E done \in {S \in SUBSET EdgeRefs(g) : Cardinality(S) <= MaxCategorised} :
           \E kinds \in [done -> {"Interior", "Exterior"}] :
             merged_path = Categorised(g, SortedRefs(done), kinds)

Init ==
    /\ InitPathAdd \/ InitClassify
    /\ side = NewGraph /\ consumed = 0
    /\ compared = {} /\ solved = {}
    /\ iterations = 0
    /\ NoRay
    /\ result = <<>>
    /\ threads = <<>>

\* ------------------------------------------------------------------------
\* path_add
\* ------------------------------------------------------------------------

\* lines 95-103
ReturnOtherSide ==
    /\ pc = "path_add"
    /\ Len(path1) = 0 \/ Len(path2) = 0
    /\ result' = ShortCircuit(path1, path2)
    /\ pc' = "done"
    /\ UNCHANGED << caller, pathVars, side, consumed, merged_path, logVars,
                    iterations, rayVars >>

\* line 106
NewMergedPath ==
    /\ pc = "path_add"
    /\ Len(path1) # 0 /\ Len(path2) # 0
    /\ merged_path' = NewGraph
    /\ side' = NewGraph /\ consumed' = 0
    /\ pc' = "from_merged_paths1"
    /\ UNCHANGED << caller, pathVars, logVars, iterations, rayVars, result >>

\* from_merged_paths takes the next path of the side it is given
MergeNextPath ==
    /\ pc \in {"from_merged_paths1", "from_merged_paths2"}
    /\ LET paths == IF pc = "from_merged_paths1" THEN path1 ELSE path2
           label == IF pc = "from_merged_paths1" THEN "Path1" ELSE "Path2"
       IN  /\ consumed < Len(paths)
           /\ side' = MergeLabelledPath(side, paths[consumed + 1], label)
           /\ consumed' = consumed + 1
    /\ UNCHANGED << caller, pc, pathVars, merged_path, logVars, iterations,
                    rayVars, result >>

\* line 107
MergeSide1 ==
    /\ pc = "from_merged_paths1"
    /\ consumed = Len(path1)
    /\ merged_path' = Merge(merged_path, side)
    /\ side' = NewGraph /\ consumed' = 0
    /\ pc' = "from_merged_paths2"
    /\ UNCHANGED << caller, pathVars, logVars, iterations, rayVars, result >>

\* line 110
CollideSide2 ==
    /\ pc = "from_merged_paths2"
    /\ consumed = Len(path2)
    /\ LET c == Collide(merged_path, side)
       IN  /\ merged_path' = c.graph
           /\ compared' = c.compared
           /\ solved' = c.solved
           /\ pc' = IF c.panicked THEN "panicked" ELSE "loop"
    /\ side' = NewGraph /\ consumed' = 0
    /\ UNCHANGED << caller, pathVars, iterations, rayVars, result >>

\* line 116
ExtractExteriorPaths ==
    /\ pc = "exterior_paths"
    /\ LET x == ExteriorPaths(merged_path)
       IN  /\ result' = x.paths
           /\ pc' = IF x.panicked THEN "panicked" ELSE "done"
    /\ UNCHANGED << caller, pathVars, side, consumed, merged_path, logVars,
                    iterations, rayVars >>

\* ------------------------------------------------------------------------
\* set_exterior_by_adding
\* ------------------------------------------------------------------------

NumEdges(g) == Cardinality(EdgeRefs(g))

\* Some edge leads to a node the graph does not have.
HasDanglingEdge(g) == \E r \in EdgeRefs(g) : ~InArena(g, EdgeEnd(g, r))

\* lines 25-39: aim at the first Uncategorised edge and cast the ray
CastRay ==
    /\ pc = "loop"
    /\ UncategorisedEdges(merged_path) # <<>>
    /\ iterations < NumEdges(merged_path) + MaxOverrun
    /\ iterations' = iterations + 1
    /\ IF HasDanglingEdge(merged_path)
       THEN /\ pc' = "panicked"
            /\ UNCHANGED rayVars
       ELSE LET edge       == Head(UncategorisedEdges(merged_path))
                next_point == PointAtHalf(merged_path, edge[1], EdgeEnd(merged_path, edge))
            IN  /\ collisions' = RayCollisions(merged_path, Origin, next_point)
                /\ inside_path1' = FALSE
                /\ inside_path2' = FALSE
                /\ pc' = "for_collision"
                /\ UNCHANGED << collision, was_inside, is_intersection >>
    /\ UNCHANGED << caller, pathVars, side, consumed, merged_path, logVars, result >>

\* lines 78-81: no Uncategorised edge is left
AllCategorised ==
    /\ pc = "loop"
    /\ UncategorisedEdges(merged_path) = <<>>
    /\ pc' = IF caller = "path_add" THEN "exterior_paths" ELSE "returned"
    /\ UNCHANGED << caller, pathVars, side, consumed, merged_path, logVars,
                    iterations, rayVars, result >>

\* lines 41-44: the next collision of the ray
NextCollision ==
    /\ pc = "for_collision"
    /\ collisions # <<>>
    /\ was_inside' = (inside_path1 \/ inside_path2)
    /\ is_intersection' = IsIntersection(Head(collisions))
    /\ collision' = Head(collisions)
    /\ collisions' = Tail(collisions)
    /\ pc' = "for_edge"
    /\ UNCHANGED << caller, pathVars, side, consumed, merged_path, logVars,
                    iterations, inside_path1, inside_path2, result >>

\* line 77: the ray has no collision left; back to the top of the loop
RayDone ==
    /\ pc = "for_collision"
    /\ collisions = <<>>
    /\ pc' = "loop"
    /\ UNCHANGED << caller, pathVars, side, consumed, merged_path, logVars,
                    iterations, rayVars, result >>

\* Lines 58-74 without the test of line 66: a crossing sets the kind of an
\* edge that has one already.
KindAfterCrossingUnguarded(edge_kind, intersection, was, now) ==
    IF ~intersection
    THEN IF was # now THEN "Exterior" ELSE "Interior"
    ELSE edge_kind

\* Lines 58-74 with the branches of line 67 exchanged: Interior where the
\* ray changes between outside and inside, Exterior where it does not.
KindAfterCrossingSwapped(edge_kind, intersection, was, now) ==
    IF ~intersection /\ edge_kind = "Uncategorised"
    THEN IF was # now THEN "Interior" ELSE "Exterior"
    ELSE edge_kind

\* Lines 58-74 without the test of line 58: the kind is set at an
\* intersection as well.
KindAfterCrossingAtIntersections(edge_kind, intersection, was, now) ==
    IF edge_kind = "Uncategorised"
    THEN IF was # now THEN "Exterior" ELSE "Interior"
    ELSE edge_kind

\* The kind lines 58-74 give the edge of kind edge_kind that a collision
\* crosses, the ray having been inside (was) and being inside (now) the
\* shape before and after it.
KindAfterCrossing(edge_kind, intersection, was, now) ==
    IF ~intersection /\ edge_kind = "Uncategorised"
    THEN IF was # now THEN "Exterior" ELSE "Interior"
    ELSE edge_kind

\* Lines 46-76 for all the edges of one collision: the graph and the flags
\* after the ray has crossed them.
RECURSIVE CrossEdgesOf(_, _, _, _, _, _)
CrossEdgesOf(g, edges, intersection, was, in1, in2) ==
    IF edges = <<>>
    THEN [graph |-> g, inside_path1 |-> in1, inside_path2 |-> in2]
    ELSE LET edge        == Head(edges)
             edge_kind   == EdgeKind(g, edge)
             source_path == EdgeLabel(g, edge)
             now1        == IF source_path = "Path1" THEN ~in1 ELSE in1
             now2        == IF source_path = "Path2" THEN ~in2 ELSE in2
             kind        == KindAfterCrossing(edge_kind, intersection, was, now1 \/ now2)
         IN  CrossEdgesOf(IF kind # edge_kind
                          THEN SetEdgeKindConnected(g, edge, kind) ELSE g,
                          Tail(edges), intersection, was, now1, now2)

\* Lines 41-77 for all the collisions of one ray.
RECURSIVE CrossCollisionsOf(_, _, _, _)
CrossCollisionsOf(g, ray, in1, in2) ==
    IF ray = <<>> THEN g
    ELSE LET after == CrossEdgesOf(g, Head(ray), IsIntersection(Head(ray)),
                                   in1 \/ in2, in1, in2)
         IN  CrossCollisionsOf(after.graph, Tail(ray),
                               after.inside_path1, after.inside_path2)

\* Lines 25-77: one pass of the loop of set_exterior_by_adding on a graph
\* that has an Uncategorised edge.
RayPass(g) ==
    LET edge       == Head(UncategorisedEdges(g))
        next_point == PointAtHalf(g, edge[1], EdgeEnd(g, edge))
    IN  CrossCollisionsOf(g, RayCollisions(g, Origin, next_point), FALSE, FALSE)

\* set_exterior_by_adding as one call: passes of the loop for as long as an
\* edge is Uncategorised.
RECURSIVE SetExteriorByAdding(_)
SetExteriorByAdding(g) ==
    IF UncategorisedEdges(g) = <<>> THEN g ELSE SetExteriorByAdding(RayPass(g))

\* lines 46-76: the next edge of the collision
CrossEdge ==
    /\ pc = "for_edge"
    /\ collision # <<>>
    /\ LET edge        == Head(collision)
           edge_kind   == EdgeKind(merged_path, edge)
           source_path == EdgeLabel(merged_path, edge)
           in1         == IF source_path = "Path1" THEN ~inside_path1 ELSE inside_path1
           in2         == IF source_path = "Path2" THEN ~inside_path2 ELSE inside_path2
           kind        == KindAfterCrossing(edge_kind, is_intersection,
                                            was_inside, in1 \/ in2)
       IN  /\ inside_path1' = in1
           /\ inside_path2' = in2
           /\ merged_path' = IF kind # edge_kind
                             THEN SetEdgeKindConnected(merged_path, edge, kind)
                             ELSE merged_path
    /\ collision' = Tail(collision)
    /\ UNCHANGED << caller, pc, pathVars, side, consumed, logVars, iterations,
                    collisions, was_inside, is_intersection, result >>

\* line 76: the collision has no edge left
CollisionDone ==
    /\ pc = "for_edge"
    /\ collision = <<>>
    /\ pc' = "for_collision"
    /\ UNCHANGED << caller, pathVars, side, consumed, merged_path, logVars,
                    iterations, rayVars, result >>

Next ==
    \/ ReturnOtherSide
    \/ NewMergedPath
    \/ MergeNextPath
    \/ MergeSide1
    \/ CollideSide2
    \/ CastRay
    \/ AllCategorised
    \/ NextCollision
    \/ RayDone
    \/ CrossEdge
    \/ CollisionDone
    \/ ExtractExteriorPaths

Spec == Init /\ [][Next]_vars

\* ------------------------------------------------------------------------
\* Calls of path_add on separate threads
\* ------------------------------------------------------------------------

Threads == {1, 2}

\* GraphPath::from_merged_paths: the graphs of the paths, each labelled with
\* its source, merged in order.
RECURSIVE FromMergedPaths(_, _)
FromMergedPaths(paths, label) ==
    IF paths = <<>> THEN NewGraph
    ELSE MergeLabelledPath(FromMergedPaths(SubSeq(paths, 1, Len(paths) - 1), label),
                           paths[Len(paths)], label)

\* The locals of one call: where it is, its arguments, the graph
\* from_merged_paths returned, merged_path and the value returned.
Locals(at, p1, p2, built, graph, out) ==
    [ pc |-> at, path1 |-> p1, path2 |-> p2, side |-> built,
      merged_path |-> graph, result |-> out ]

\* `let mut merged_path' of the call on thread t.
GraphOfShared(calls, t) == calls[1].merged_path
GraphOf(calls, t) == calls[t].merged_path

\* The calls after the call on thread t has moved to `next'.
WithCall(calls, t, next) == [u \in Threads |-> IF u = t THEN next ELSE calls[u]]

\* The calls path_add is made with on each thread: sides that overlap,
\* sides apart, a side of two paths, an empty side, and a path that ends at
\* its start point on side 1 and on side 2.
ThreadCalls ==
    { << <<Polyline(SquareA)>>, <<Polyline(SquareB)>> >>,
      << <<Polyline(SquareFar)>>, <<Polyline(SquareA)>> >>,
      << <<Polyline(SquareB), Polyline(<<Pt(3, 3)>>), Polyline(SquareFar)>>,
         <<Polyline(SquareA)>> >>,
      << <<>>, <<Polyline(SquareB)>> >>,
      << <<ClosedPolyline(SquareA)>>, <<Polyline(SquareFar)>> >>,
      << <<Polyline(SquareA)>>, <<ClosedPolyline(SquareB)>> >> }

InitThreads ==
    /\ threads \in [Threads -> { Locals("path_add", c[1], c[2], NewGraph, NewGraph, <<>>) :
                                   c \in ThreadCalls }]
    /\ caller = "threads" /\ pc = "idle"
    /\ path1 = <<>> /\ path2 = <<>>
    /\ merged_path = NewGraph /\ side = NewGraph /\ consumed = 0
    /\ compared = {} /\ solved = {} /\ iterations = 0
    /\ NoRay
    /\ result = <<>>

oneCallVars == << caller, pc, path1, path2, side, consumed, merged_path, compared,
                  solved, iterations, collisions, collision, was_inside,
                  is_intersection, inside_path1, inside_path2, result >>

\* lines 95-103
ThreadReturnOtherSide(t) ==
    LET my == threads[t]
    IN  /\ my.pc = "path_add"
        /\ Len(my.path1) = 0 \/ Len(my.path2) = 0
        /\ threads' = WithCall(threads, t,
               Locals("done", my.path1, my.path2, my.side, GraphOf(threads, t),
                      ShortCircuit(my.path1, my.path2)))
        /\ UNCHANGED oneCallVars

\* line 106, and the argument of merge in line 107
ThreadBuildSide1(t) ==
    LET my == threads[t]
    IN  /\ my.pc = "path_add"
        /\ Len(my.path1) # 0 /\ Len(my.path2) # 0
        /\ threads' = WithCall(threads, t,
               Locals("merge", my.path1, my.path2,
                      FromMergedPaths(my.path1, "Path1"), NewGraph, my.result))
        /\ UNCHANGED oneCallVars

\* line 107: merge
ThreadMerge(t) ==
    LET my == threads[t]
    IN  /\ my.pc = "merge"
        /\ threads' = WithCall(threads, t,
               Locals("from_merged_paths2", my.path1, my.path2, NewGraph,
                      Merge(GraphOf(threads, t), my.side), my.result))
        /\ UNCHANGED oneCallVars

\* the argument of collide in line 110
ThreadBuildSide2(t) ==
    LET my == threads[t]
    IN  /\ my.pc = "from_merged_paths2"
        /\ threads' = WithCall(threads, t,
               Locals("collide", my.path1, my.path2,
                      FromMergedPaths(my.path2, "Path2"), GraphOf(threads, t),
                      my.result))
        /\ UNCHANGED oneCallVars

\* line 110: collide
ThreadCollide(t) ==
    LET my == threads[t]
        c  == Collide(GraphOf(threads, t), my.side)
    IN  /\ my.pc = "collide"
        /\ threads' = WithCall(threads, t,
               Locals(IF c.panicked THEN "panicked" ELSE "loop",
                      my.path1, my.path2, NewGraph, c.graph, my.result))
        /\ UNCHANGED oneCallVars

\* line 113: one pass of the loop of set_exterior_by_adding, or its return
ThreadClassify(t) ==
    LET my == threads[t]
        g  == GraphOf(threads, t)
    IN  /\ my.pc = "loop"
        /\ threads' = WithCall(threads, t,
               IF UncategorisedEdges(g) = <<>>
               THEN Locals("exterior_paths", my.path1, my.path2, my.side, g, my.result)
               ELSE IF HasDanglingEdge(g)
               THEN Locals("panicked", my.path1, my.path2, my.side, g, my.result)
               ELSE Locals("loop", my.path1, my.path2, my.side, RayPass(g), my.result))
        /\ UNCHANGED oneCallVars

\* line 116
ThreadExtract(t) ==
    LET my == threads[t]
        x  == ExteriorPaths(GraphOf(threads, t))
    IN  /\ my.pc = "exterior_paths"
        /\ threads' = WithCall(threads, t,
               Locals(IF x.panicked THEN "panicked" ELSE "done",
                      my.path1, my.path2, my.side, GraphOf(threads, t), x.paths))
        /\ UNCHANGED oneCallVars

NextThreads ==
    \E t \in Threads :
        \/ ThreadReturnOtherSide(t)
        \/ ThreadBuildSide1(t)
        \/ ThreadMerge(t)
        \/ ThreadBuildSide2(t)
        \/ ThreadCollide(t)
        \/ ThreadClassify(t)
        \/ ThreadExtract(t)

SpecThreads == InitThreads /\ [][NextThreads]_vars

\* path_add run on its own: where it ends and what it returns.
PathAddAlone(p1, p2) ==
    IF Len(p1) = 0 \/ Len(p2) = 0
    THEN [pc |-> "done", result |-> ShortCircuit(p1, p2)]
    ELSE LET merged == Merge(NewGraph, FromMergedPaths(p1, "Path1"))
             c      == Collide(merged, FromMergedPaths(p2, "Path2"))
         IN  IF c.panicked THEN [pc |-> "panicked", result |-> <<>>]
             ELSE LET x == ExteriorPaths(SetExteriorByAdding(c.graph))
                  IN  [pc |-> IF x.panicked THEN "panicked" ELSE "done",
                       result |-> x.paths]

\* ------------------------------------------------------------------------
\* Properties
\* ------------------------------------------------------------------------

InClassifier == pc \in {"loop", "for_collision", "for_edge"}

\* C1: the outer loop of set_exterior_by_adding is entered at most as many
\* times as the graph has edges.
C1_IterationsWithinEdgeCount == iterations <= NumEdges(merged_path)

\* The sections of the output path that path_add's short circuit must give
\* for the input path q: its start point and its sections, as they are.
SameAsInput(out, q) ==
    /\ out[1] = q.start_point
    /\ Len(out[2]) = Len(q.points)
    /\ \A k \in 1..Len(q.points) : out[2][k] = q.points[k]

\* C2: with one side empty path_add returns the paths of the other side,
\* one output path per input path in the same order, and builds no graph
\* and runs no merge, collision, classification or extraction step.
C2_EmptySideReturnsOther ==
    (caller = "path_add" /\ (Len(path1) = 0 \/ Len(path2) = 0)) =>
        /\ pc \in {"path_add", "done"}
        /\ merged_path = NewGraph /\ side = NewGraph /\ consumed = 0
        /\ compared = {} /\ solved = {} /\ iterations = 0 /\ NoRay
        /\ pc = "done" =>
             LET q == IF Len(path1) = 0 THEN path2 ELSE path1
             IN  /\ Len(result) = Len(q)
                 /\ \A i \in 1..Len(q) : SameAsInput(result[i], q[i])

\* path_add(q, []) has returned for a q of two different paths
C2_Witness ==
    /\ pc = "done" /\ path2 = <<>>
    /\ Len(path1) = 2 /\ path1[1] # path1[2]
    /\ Len(result) = 2

\* C3: while set_exterior_by_adding runs, an edge that is Interior or
\* Exterior keeps its kind in every step.
C3_CategorisedKindIsFinal ==
    [][ InClassifier =>
          \A r \in EdgeRefs(merged_path) :
             EdgeKind(merged_path, r) # "Uncategorised" =>
                /\ r \in EdgeRefs(merged_path')
                /\ EdgeKind(merged_path', r) = EdgeKind(merged_path, r) ]_vars

\* a later ray crosses, away from any intersection, an edge that is Interior
\* where the ray changes between outside and inside (an Uncategorised edge
\* would be made Exterior there)
C3_Witness ==
    /\ pc = "for_edge" /\ collision # <<>> /\ ~is_intersection
    /\ iterations >= 2
    /\ EdgeKind(merged_path, Head(collision)) = "Interior"
    /\ LET label == EdgeLabel(merged_path, Head(collision))
           now   == (IF label = "Path1" THEN ~inside_path1 ELSE inside_path1)
                    \/ (IF label = "Path2" THEN ~inside_path2 ELSE inside_path2)
       IN  was_inside # now

\* C4: when set_exterior_by_adding has returned (and so when path_add
\* extracts the exterior paths) no edge is Uncategorised.
C4_ReturnsFullyCategorised ==
    pc \in {"returned", "exterior_paths", "done"} =>
        \A r \in EdgeRefs(merged_path) :
            EdgeKind(merged_path, r) \in {"Interior", "Exterior"}

\* the classifier has returned after several rays, having made edges of
\* both kinds
C4_Witness ==
    /\ pc = "returned" /\ iterations >= 3
    /\ \E r \in EdgeRefs(merged_path) : EdgeKind(merged_path, r) = "Interior"
    /\ \E r \in EdgeRefs(merged_path) : EdgeKind(merged_path, r) = "Exterior"

\* C5: path_add never aborts on a read outside the node arena.
C5_PathAddNeverAborts == caller = "path_add" => pc # "panicked"

\* The corner points of an input path and of an output path.
PathVertices(path) ==
    {path.start_point} \cup {path.points[k][3] : k \in 1..Len(path.points)}
OutVertices(out) == {out[1]} \cup {out[2][k][3] : k \in 1..Len(out[2])}

\* Every point of S is (within CLOSE_DISTANCE) a point of T and the reverse.
SamePoints(S, T) ==
    /\ \A a \in S : \E b \in T : IsClose(a, b)
    /\ \A b \in T : \E a \in S : IsClose(a, b)

\* The bounding box of an input path: all its points and control points.
PathBox(path) ==
    LET pts == {path.start_point} \cup
               UNION { {path.points[k][1], path.points[k][2], path.points[k][3]} :
                       k \in 1..Len(path.points) }
        xs  == {q[1] : q \in pts}
        ys  == {q[2] : q \in pts}
        lo(S) == CHOOSE m \in S : \A o \in S : m <= o
        hi(S) == CHOOSE m \in S : \A o \in S : m >= o
    IN  << <<lo(xs), lo(ys)>>, <<hi(xs), hi(ys)>> >>

PathAddEnded == caller = "path_add" /\ pc \in {"done", "panicked"}

\* C6: path_add of two closed paths whose bounding boxes do not overlap
\* returns the two paths: two output paths, one through the corners of each
\* input path, every edge Exterior.
C6_DisjointPathsReturned ==
    ( /\ PathAddEnded
      /\ Len(path1) = 1 /\ Len(path2) = 1
      /\ Len(path1[1].points) >= 2 /\ Len(path2[1].points) >= 2
      /\ ~Overlaps(PathBox(path1[1]), PathBox(path2[1])) ) =>
        /\ pc = "done"
        /\ Len(result) = 2
        /\ \E i, j \in 1..2 :
             /\ i # j
             /\ SamePoints(OutVertices(result[i]), PathVertices(path1[1]))
             /\ SamePoints(OutVertices(result[j]), PathVertices(path2[1]))
        /\ \A r \in EdgeRefs(merged_path) : EdgeKind(merged_path, r) = "Exterior"

\* Twice the area inside the polygon through the corners of an output path.
TwiceArea(out) ==
    LET n == Len(out[2])
        corner(k) == IF k = 0 THEN out[1] ELSE out[2][k][3]
        RECURSIVE sum(_)
        sum(k) == IF k > n THEN 0
                  ELSE Cross(corner(k), corner(IF k = n THEN 0 ELSE k + 1)) + sum(k + 1)
        total == sum(0)
    IN  IF total < 0 THEN -total ELSE total

\* The outline of the union of SquareA and SquareB.
UnionOutline ==
    { Pt(0, 0), Pt(10, 0), Pt(10, 5), Pt(15, 5), Pt(15, 15), Pt(5, 15), Pt(5, 10),
      Pt(0, 10) }

\* C7: path_add of the squares (0,0)-(10,10) and (5,5)-(15,15) returns one
\* path, the outline of their union, which encloses the area 175.
C7_UnionOfSquares ==
    ( /\ PathAddEnded
      /\ path1 = <<Polyline(SquareA)>>
      /\ path2 = <<Polyline(SquareB)>> ) =>
        /\ pc = "done"
        /\ Len(result) = 1
        /\ OutVertices(result[1]) = UnionOutline
        /\ TwiceArea(result[1]) = 2 * 175 * Scale * Scale

\* The number of nodes of the graphs from_path makes of the first k paths.
RECURSIVE SumPoints(_, _)
SumPoints(paths, k) ==
    IF k = 0 THEN 0 ELSE SumPoints(paths, k - 1) + NumPoints(FromPath(paths[k]))

\* In g, from node index `from' on, the graphs of the first k paths lie one
\* after the other, each starting at the running total of the ones before.
SourcesInOrder(g, from, paths, k) ==
    \A j \in 1..k :
        \A n \in 1..NumPoints(FromPath(paths[j])) :
            LET node == g[from + SumPoints(paths, j - 1) + n]
                src  == FromPath(paths[j])[n]
            IN  node.p = src.p /\ node.cp1 = src.cp1 /\ node.cp2 = src.cp2

\* C8: a merge has the nodes of both graphs, and a graph merged from k
\* graphs has the sum of their node counts, source i starting at the sum of
\* the node counts of the sources before it.
C8_MergedNodeCounts ==
    (caller = "path_add" /\ Len(path1) > 0 /\ Len(path2) > 0) =>
      LET total1 == SumPoints(path1, Len(path1))
          total2 == SumPoints(path2, Len(path2))
      IN  /\ pc = "from_merged_paths1" =>
                /\ NumPoints(side) = SumPoints(path1, consumed)
                /\ SourcesInOrder(side, 0, path1, consumed)
          /\ pc = "from_merged_paths2" =>
                /\ NumPoints(side) = SumPoints(path2, consumed)
                /\ SourcesInOrder(side, 0, path2, consumed)
                /\ NumPoints(merged_path) = total1
                /\ SourcesInOrder(merged_path, 0, path1, Len(path1))
          /\ pc \in {"loop", "exterior_paths", "done", "panicked"} =>
                /\ NumPoints(merged_path) = total1 + total2
                /\ SourcesInOrder(merged_path, 0, path1, Len(path1))
                /\ SourcesInOrder(merged_path, total1, path2, Len(path2))

\* two graphs with nodes have been merged into a side that already had nodes
C8_Witness ==
    /\ pc = "from_merged_paths2" /\ consumed = 2
    /\ NumPoints(merged_path) > 0
    /\ NumPoints(FromPath(path2[1])) > 0 /\ NumPoints(FromPath(path2[2])) > 0
    /\ NumPoints(side) = NumPoints(FromPath(path2[1])) + NumPoints(FromPath(path2[2]))

\* r is a followed by b, the nodes of a as they are and the nodes of b with
\* the same points and edges, every edge target moved up by the size of a.
IsMergeOf(a, b, r) ==
    /\ Len(r) = Len(a) + Len(b)
    /\ \A i \in 1..Len(a) : r[i] = a[i]
    /\ \A j \in 1..Len(b) :
         LET from == b[j]
             to   == r[Len(a) + j]
         IN  /\ to.p = from.p /\ to.cp1 = from.cp1 /\ to.cp2 = from.cp2
             /\ Len(to.edges) = Len(from.edges)
             /\ \A e \in 1..Len(from.edges) :
                  /\ to.edges[e].kind = from.edges[e].kind
                  /\ to.edges[e].label = from.edges[e].label
                  /\ to.edges[e].target = from.edges[e].target + Len(a)

\* C9: every merge path_add makes keeps the nodes of the first graph and
\* appends the nodes of the second with their points and edges, each edge
\* target moved up by the node count of the first.
C9_MergeRebasesTargets ==
    [][ /\ ( /\ pc \in {"from_merged_paths1", "from_merged_paths2"}
             /\ consumed' = consumed + 1 ) =>
               IsMergeOf(side,
                         WithLabel(FromPath((IF pc = "from_merged_paths1"
                                             THEN path1 ELSE path2)[consumed + 1]),
                                   IF pc = "from_merged_paths1" THEN "Path1" ELSE "Path2"),
                         side')
        /\ ( /\ pc \in {"from_merged_paths1", "from_merged_paths2"}
             /\ pc' # pc ) =>
               IsMergeOf(merged_path, side, merged_path') ]_vars

\* the graph of the second side, which has an edge, has been merged behind
\* the graph of the first side, which has nodes
C9_Witness ==
    /\ caller = "path_add" /\ pc \in {"loop", "panicked"}
    /\ SumPoints(path1, Len(path1)) > 0
    /\ \E r \in EdgeRefs(merged_path) :
         /\ r[1] >= SumPoints(path1, Len(path1))
         /\ EdgeEnd(merged_path, r) >= SumPoints(path1, Len(path1))

\* C10: every node of a graph from_path returns, and of a graph merged from
\* such graphs, has an outgoing edge.
C10_EveryNodeHasAnEdge ==
    caller = "path_add" =>
        /\ \A q \in {path1[i] : i \in 1..Len(path1)} \cup {path2[i] : i \in 1..Len(path2)} :
             \A n \in 1..NumPoints(FromPath(q)) : Len(FromPath(q)[n].edges) >= 1
        /\ \A n \in 1..NumPoints(side) : Len(side[n].edges) >= 1
        /\ \A n \in 1..NumPoints(merged_path) : Len(merged_path[n].edges) >= 1

\* three paths, one of them left open and one closed by its last section,
\* have been merged into one graph
C10_Witness ==
    /\ caller = "path_add" /\ pc = "loop"
    /\ Len(path1) + Len(path2) = 3
    /\ \E n \in 1..NumPoints(merged_path) : Len(merged_path[n].edges) = 2
    /\ \E q \in {path1[i] : i \in 1..Len(path1)} \cup {path2[i] : i \in 1..Len(path2)} :
         NumPoints(FromPath(q)) = Len(q.points) + 1
    /\ NumPoints(merged_path) >= 11

\* The paths of both sides of the call.
AllInputPaths ==
    {path1[i] : i \in 1..Len(path1)} \cup {path2[i] : i \in 1..Len(path2)}

\* The paths from_path has been called on so far.
BuiltPaths ==
    IF caller # "path_add" \/ pc = "path_add" THEN {}
    ELSE IF Len(path1) = 0 \/ Len(path2) = 0 THEN {}
    ELSE IF pc = "from_merged_paths1" THEN {path1[i] : i \in 1..consumed}
    ELSE IF pc = "from_merged_paths2"
         THEN {path1[i] : i \in 1..Len(path1)} \cup {path2[i] : i \in 1..consumed}
    ELSE AllInputPaths

\* C11: from_path of a path that is a start point and no section is the
\* graph with no node and no edge, and merging that graph into another one
\* leaves the other graph as it was: node count, points, edge targets and
\* edge kinds.
C11_PointPathIsDropped ==
    [][ ( /\ pc \in {"from_merged_paths1", "from_merged_paths2"}
          /\ consumed' = consumed + 1
          /\ Len((IF pc = "from_merged_paths1" THEN path1 ELSE path2)[consumed + 1].points) = 0 ) =>
            LET q == (IF pc = "from_merged_paths1" THEN path1 ELSE path2)[consumed + 1]
            IN  /\ NumPoints(FromPath(q)) = 0
                /\ EdgeRefs(FromPath(q)) = {}
                /\ NumPoints(side') = NumPoints(side)
                /\ \A n \in 1..NumPoints(side) :
                     /\ side'[n].p = side[n].p
                     /\ side'[n].cp1 = side[n].cp1 /\ side'[n].cp2 = side[n].cp2
                     /\ Len(side'[n].edges) = Len(side[n].edges)
                     /\ \A e \in 1..Len(side[n].edges) :
                          /\ side'[n].edges[e].target = side[n].edges[e].target
                          /\ side'[n].edges[e].kind = side[n].edges[e].kind ]_vars

\* the second path of side 1 is one point, and it has been merged into the
\* graph of the first path, which has nodes
C11_Witness ==
    /\ pc = "from_merged_paths1" /\ consumed = 2
    /\ Len(path1[1].points) > 0 /\ Len(path1[2].points) = 0
    /\ NumPoints(side) = NumPoints(FromPath(path1[1]))
    /\ NumPoints(side) > 0

\* C12: when the classifier loop has used up its iteration bound (the number
\* of edges) and Uncategorised edges are left, its next step makes every one
\* of them Interior and the operation goes on to extraction.
C12_BoundForcesInterior ==
    [][ ( /\ pc = "loop"
          /\ iterations >= NumEdges(merged_path)
          /\ UncategorisedEdges(merged_path) # <<>> ) =>
            /\ pc' \in {"exterior_paths", "returned"}
            /\ \A r \in EdgeRefs(merged_path) :
                 EdgeKind(merged_path, r) = "Uncategorised" =>
                    EdgeKind(merged_path', r) = "Interior" ]_vars

\* Section k of the output path out is the curve of an Exterior edge of g
\* that starts where section k-1 ended.
SectionIsExteriorEdge(g, out, k) ==
    LET from == IF k = 1 THEN out[1] ELSE out[2][k - 1][3]
    IN  \E r \in EdgeRefs(g) :
          /\ EdgeKind(g, r) = "Exterior"
          /\ InArena(g, EdgeEnd(g, r))
          /\ EdgeStartPoint(g, r[1]) = from
          /\ EdgeControlPoints(g, EdgeEnd(g, r)) = <<out[2][k][1], out[2][k][2]>>
          /\ EdgeEndPoint(g, EdgeEnd(g, r)) = out[2][k][3]

C14_AddToItself ==
    ( /\ PathAddEnded
      /\ Len(path1) = 1 /\ path2 = path1
      /\ Len(path1[1].points) >= 3
      /\ ~IsClose(path1[1].start_point,
                  path1[1].points[Len(path1[1].points)][3]) ) =>
        /\ pc = "done"
        /\ Len(result) = 1
        /\ SamePoints(OutVertices(result[1]), PathVertices(path1[1]))
        /\ TwiceArea(result[1]) = TwiceArea(POutFromPath(path1[1]))

\* C16: every edge of a graph from_path returns leads to a node of that
\* graph: its target is smaller than num_points().
C16_EdgesTargetNodes ==
    caller = "path_add" =>
        \A q \in BuiltPaths :
            \A r \in EdgeRefs(FromPath(q)) :
                EdgeEnd(FromPath(q), r) < NumPoints(FromPath(q))

\* The path ends within CLOSE_DISTANCE of its start point.
EndsAtStart(q) ==
    Len(q.points) >= 1 /\ IsClose(q.start_point, q.points[Len(q.points)][3])

\* C17: for a path of n >= 1 sections that ends within CLOSE_DISTANCE of its
\* start point from_path returns n nodes; node 0 has the control points of
\* the last section, node n-1 has an edge to node 0, that edge is the one
\* edge into node 0, and the nodes are the start point and the end points of
\* the sections before the last.
C17_ClosedPathDropsLastNode ==
    caller = "path_add" =>
        \A q \in {p \in BuiltPaths : EndsAtStart(p)} :
            LET n == Len(q.points)
                g == FromPath(q)
            IN  /\ NumPoints(g) = n
                /\ g[1].p = q.start_point
                /\ g[1].cp1 = q.points[n][1] /\ g[1].cp2 = q.points[n][2]
                /\ \A i \in 1..(n - 1) : g[i + 1].p = q.points[i][3]
                /\ \E r \in EdgeRefs(g) : r[1] = n - 1 /\ EdgeEnd(g, r) = 0
                /\ \A r \in EdgeRefs(g) : EdgeEnd(g, r) = 0 => r[1] = n - 1
                /\ Cardinality({r \in EdgeRefs(g) : EdgeEnd(g, r) = 0}) = 1

\* a path that ends at its start point, and one that ends close to it, have
\* been made into graphs and merged
C17_Witness ==
    /\ caller = "path_add" /\ pc = "from_merged_paths2"
    /\ Len(path1) = 2 /\ consumed = 0
    /\ EndsAtStart(path1[1]) /\ EndsAtStart(path1[2])
    /\ path1[1].points[Len(path1[1].points)][3] = path1[1].start_point
    /\ path1[2].points[Len(path1[2].points)][3] # path1[2].start_point
    /\ NumPoints(merged_path) = Len(path1[1].points) + Len(path1[2].points)

\* C18: the graph from_path returns for a path with a section is one simple
\* directed cycle: each node has one outgoing and one incoming edge, and
\* the edge of node i leads to node i+1, the edge of the last node to node 0.
C18_FromPathIsOneCycle ==
    caller = "path_add" =>
        \A q \in {p \in BuiltPaths : Len(p.points) >= 1} :
            LET g == FromPath(q)
            IN  \A i \in 0..(NumPoints(g) - 1) :
                  /\ Cardinality({r \in EdgeRefs(g) : r[1] = i}) = 1
                  /\ Cardinality({r \in EdgeRefs(g) : EdgeEnd(g, r) = i}) = 1
                  /\ EdgeEnd(g, <<i, 0>>) = (i + 1) % NumPoints(g)

\* The index range <<first, past>> the nodes of the k-th path given to
\* from_path (side 1 first, then side 2) have in the merged graph.
AllPathsInOrder == path1 \o path2
SourceRange(k) ==
    << SumPoints(AllPathsInOrder, k - 1), SumPoints(AllPathsInOrder, k) >>

\* C19: in the graph path_add has merged from the graphs of all its paths,
\* an edge that leaves a node of one source path leads to a node of the same
\* source path, and every target is smaller than the node count.
C19_NoEdgeBetweenSources ==
    (caller = "path_add" /\ pc \in {"loop", "exterior_paths", "done", "panicked"}) =>
        /\ \A r \in EdgeRefs(merged_path) :
             EdgeEnd(merged_path, r) < NumPoints(merged_path)
        /\ \A k \in 1..Len(AllPathsInOrder) :
             \A r \in EdgeRefs(merged_path) :
                (r[1] >= SourceRange(k)[1] /\ r[1] < SourceRange(k)[2]) =>
                    /\ EdgeEnd(merged_path, r) >= SourceRange(k)[1]
                    /\ EdgeEnd(merged_path, r) < SourceRange(k)[2]

\* C20: each edge a ray crosses flips the flag of the source path that owns
\* it and leaves the other flag as it is; at a crossing that is no
\* intersection a crossed Uncategorised edge becomes Exterior when
\* (inside_path1 or inside_path2) is not the same before and after the flip,
\* and Interior when it is the same.
C20_CrossingFlipsOwnFlag ==
    [][ (pc = "for_edge" /\ collision # <<>>) =>
          LET edge   == Head(collision)
              owner  == EdgeLabel(merged_path, edge)
              before == inside_path1 \/ inside_path2
              after  == inside_path1' \/ inside_path2'
          IN  /\ owner = "Path1" =>
                   (inside_path1' = ~inside_path1 /\ inside_path2' = inside_path2)
              /\ owner = "Path2" =>
                   (inside_path2' = ~inside_path2 /\ inside_path1' = inside_path1)
              /\ (~is_intersection /\ EdgeKind(merged_path, edge) = "Uncategorised") =>
                   EdgeKind(merged_path', edge) =
                       IF before # after THEN "Exterior" ELSE "Interior" ]_vars

\* a ray that is inside both paths crosses, away from any intersection, an
\* edge that is Uncategorised
C20_Witness ==
    /\ pc = "for_edge" /\ collision # <<>> /\ ~is_intersection
    /\ inside_path1 /\ inside_path2
    /\ EdgeKind(merged_path, Head(collision)) = "Uncategorised"

\* C15: of two calls of path_add that run at the same time on two threads,
\* under every interleaving of their steps, a step of one call leaves the
\* locals of the other call (its graph with its nodes, kinds and labels) as
\* they are, and each call ends as it ends, and returns what it returns,
\* when it runs alone.
C15_CallsDoNotInterfere ==
    [][ \A t \in Threads :
          /\ threads'[t] # threads[t] =>
                \A u \in Threads \ {t} : threads'[u] = threads[u]
          /\ threads'[t].pc \in {"done", "panicked"} =>
                LET alone == PathAddAlone(threads[t].path1, threads[t].path2)
                IN  /\ threads'[t].pc = alone.pc
                    /\ threads'[t].pc = "done" => threads'[t].result = alone.result ]_vars

\* two calls with different arguments have both returned their paths
C15_Witness ==
    /\ caller = "threads"
    /\ threads[1].pc = "done" /\ threads[2].pc = "done"
    /\ threads[1].path1 # threads[2].path1
    /\ Len(threads[1].result) = 2 /\ Len(threads[2].result) = 3

\* C21: a pass of the classifier loop that does not leave the loop lowers
\* the number of Uncategorised edges, and the edge whose midpoint the ray
\* was aimed at is categorised when the pass ends.  Stated of the passes
\* that start where an earlier pass of the run has ended.
C21_PassCategorisesItsEdge ==
    ( /\ pc = "loop" /\ iterations >= 1
      /\ UncategorisedEdges(merged_path) # <<>>
      /\ ~HasDanglingEdge(merged_path) ) =>
        LET aimed_at == Head(UncategorisedEdges(merged_path))
            after    == RayPass(merged_path)
        IN  /\ Len(UncategorisedEdges(after)) < Len(UncategorisedEdges(merged_path))
            /\ EdgeKind(after, aimed_at) # "Uncategorised"

\* C22: at a crossing that is an intersection each of the edges that meet
\* there flips the flag of its source path, the flags after the last of them
\* are what the next crossing starts from, and no edge gets a kind.
C22_IntersectionOnlyFlips ==
    [][ /\ (pc = "for_edge" /\ collision # <<>> /\ is_intersection) =>
             LET owner == EdgeLabel(merged_path, Head(collision))
             IN  /\ inside_path1' = (IF owner = "Path1" THEN ~inside_path1 ELSE inside_path1)
                 /\ inside_path2' = (IF owner = "Path2" THEN ~inside_path2 ELSE inside_path2)
                 /\ merged_path' = merged_path
        /\ (pc = "for_edge" /\ collision = <<>>) =>
             (inside_path1' = inside_path1 /\ inside_path2' = inside_path2)
        /\ (pc = "for_collision" /\ collisions # <<>>) =>
             /\ was_inside' = (inside_path1 \/ inside_path2)
             /\ inside_path1' = inside_path1 /\ inside_path2' = inside_path2 ]_vars

\* the ray has crossed the first edge of an intersection, which is still
\* Uncategorised, and is about to cross the second, of the other path
C22_Witness ==
    /\ pc = "for_edge" /\ is_intersection /\ Len(collision) = 1
    /\ inside_path1 # inside_path2
    /\ EdgeKind(merged_path, Head(collision)) = "Uncategorised"
    /\ \E r \in EdgeRefs(merged_path) :
         /\ EdgeLabel(merged_path, r) # EdgeLabel(merged_path, Head(collision))
         /\ EdgeKind(merged_path, r) = "Uncategorised"
         /\ RefBefore(r, Head(collision))

\* Whether point is inside the shape of the edges of g that carry label:
\* a half-line from point that passes through no corner of the shape
\* crosses the edges of the shape an odd number of times.
InsideSource(g, label, point) ==
    LET crossed == {r \in EdgeRefs(g) :
                      /\ EdgeLabel(g, r) = label
                      /\ InArena(g, EdgeEnd(g, r))
                      /\ RayHit(g, point, Add(point, <<1000, 1>>), r).hit}
    IN  Cardinality(crossed) % 2 = 1

\* C23: the point set_exterior_by_adding casts its rays from is outside
\* both source shapes, so that a ray starts with inside_path1 and
\* inside_path2 false as they are.
C23_RayStartsOutside ==
    (pc = "for_collision" /\ iterations >= 1) =>
        /\ ~InsideSource(merged_path, "Path1", Origin)
        /\ ~InsideSource(merged_path, "Path2", Origin)

\* The sign of a number: -1, 0 or 1.
Sign(x) == IF x < 0 THEN -1 ELSE IF x > 0 THEN 1 ELSE 0

\* Whether the edges r1 and r2 of g, taken as the straight lines between
\* their end points, cross at a point strictly inside both.
CrossStrictly(g, r1, r2) ==
    LET a == EdgeStartPoint(g, r1[1])
        b == EdgeEndPoint(g, EdgeEnd(g, r1))
        c == EdgeStartPoint(g, r2[1])
        d == EdgeEndPoint(g, EdgeEnd(g, r2))
    IN  /\ Sign(Cross(Sub(b, a), Sub(c, a))) * Sign(Cross(Sub(b, a), Sub(d, a))) = -1
        /\ Sign(Cross(Sub(d, c), Sub(a, c))) * Sign(Cross(Sub(d, c), Sub(b, c))) = -1

\* Whether node n of g lies where the lines from a1 to b1 and from a2 to b2
\* cross, and has two edges in and two edges out.
IsBranchNodeAt(g, n, a1, b1, a2, b2) ==
    /\ Cross(Sub(b1, a1), Sub(g[n + 1].p, a1)) = 0
    /\ Cross(Sub(b2, a2), Sub(g[n + 1].p, a2)) = 0
    /\ Cardinality({r \in EdgeRefs(g) : EdgeEnd(g, r) = n}) >= 2
    /\ Cardinality({r \in EdgeRefs(g) : r[1] = n}) >= 2

\* C24: after collide(a, b) the graph has, for every point where an edge of
\* a crosses an edge of b strictly inside both, a node at that point with
\* two edges in and two edges out, and one node more per crossing than the
\* two graphs had.
C24_CrossingsBecomeNodes ==
    ( /\ caller = "path_add" /\ pc \in {"loop", "exterior_paths", "done"}
      /\ Len(path1) > 0 /\ Len(path2) > 0
      /\ ~HasDanglingEdge(Merge(FromMergedPaths(path1, "Path1"),
                                FromMergedPaths(path2, "Path2"))) ) =>
        LET a        == FromMergedPaths(path1, "Path1")
            before   == Merge(a, FromMergedPaths(path2, "Path2"))
            crossing == {x \in EdgeRefs(before) \X EdgeRefs(before) :
                            /\ x[1][1] < NumPoints(a) /\ x[2][1] >= NumPoints(a)
                            /\ CrossStrictly(before, x[1], x[2])}
        IN  /\ NumPoints(merged_path) = NumPoints(before) + Cardinality(crossing)
            /\ \A x \in crossing :
                 \E n \in 0..(NumPoints(merged_path) - 1) :
                    IsBranchNodeAt(merged_path, n,
                                   EdgeStartPoint(before, x[1][1]),
                                   EdgeEndPoint(before, EdgeEnd(before, x[1])),
                                   EdgeStartPoint(before, x[2][1]),
                                   EdgeEndPoint(before, EdgeEnd(before, x[2])))

\* The pairs <<src_idx, src_edge, tgt_idx, tgt_edge>> of an edge that leaves
\* one of the first `offset' nodes of g and an edge that leaves a later node.
CrossPairs(g, offset) ==
    { <<s[1], s[2], t[1], t[2]>> :
        s \in {r \in EdgeRefs(g) : r[1] < offset},
        t \in {r \in EdgeRefs(g) : r[1] >= offset} }

\* C25: collide(a, b) tests every pair of an edge of a and an edge of b, and
\* no other pair: no edge against itself and no two edges of one side.
C25_CollideTestsCrossPairs ==
    ( /\ caller = "path_add"
      /\ pc \in {"loop", "exterior_paths", "done", "panicked"}
      /\ Len(path1) > 0 /\ Len(path2) > 0 ) =>
        compared = CrossPairs(merged_path, SumPoints(path1, Len(path1)))

\* No edge of the first `offset' nodes of g has a bounding box that overlaps
\* the bounding box of an edge of the later nodes.
NoBoxesOverlap(g, offset) ==
    \A q \in CrossPairs(g, offset) :
        LET src_end == EdgeEnd(g, <<q[1], q[2]>>)
            tgt_end == EdgeEnd(g, <<q[3], q[4]>>)
        IN  (InArena(g, src_end) /\ InArena(g, tgt_end)) =>
                ~Overlaps(FastBoundingBox(g, q[1], src_end),
                          FastBoundingBox(g, q[3], tgt_end))

\* C26: when no bounding box of an edge of a overlaps one of an edge of b,
\* collide(a, b) returns a.merge(b): the same nodes in the same order with
\* the same edges, targets and kinds.
C26_ApartGraphsAreMerged ==
    ( /\ caller = "path_add"
      /\ pc \in {"loop", "exterior_paths", "done", "panicked"}
      /\ Len(path1) > 0 /\ Len(path2) > 0
      /\ NoBoxesOverlap(Merge(FromMergedPaths(path1, "Path1"),
                              FromMergedPaths(path2, "Path2")),
                        SumPoints(path1, Len(path1))) ) =>
        /\ pc # "panicked"
        /\ solved = {}
        /\ merged_path = Merge(FromMergedPaths(path1, "Path1"),
                               FromMergedPaths(path2, "Path2"))

\* The point the fraction num/3 of the way from a to b.
ThirdsAlong(a, b, num) ==
    LET d == Sub(b, a) IN Add(a, <<(num * d[1]) \div 3, (num * d[2]) \div 3>>)

\* Whether a and b are less than a tenth of a unit apart.
Near(a, b) == DistanceSquared(a, b) < (Scale \div 10) * (Scale \div 10)

\* C28: for a path of n >= 1 sections that does not end within
\* CLOSE_DISTANCE of its start point from_path returns n+1 nodes, node n has
\* an edge to node 0, and the control points of node 0 are the points 1/3
\* and 2/3 of the way along the line from the last point to the start point.
C28_ClosingLineControlPoints ==
    caller = "path_add" =>
        \A q \in {p \in BuiltPaths : Len(p.points) >= 1 /\ ~EndsAtStart(p)} :
            LET n    == Len(q.points)
                g    == FromPath(q)
                last == q.points[n][3]
            IN  /\ NumPoints(g) = n + 1
                /\ \E r \in EdgeRefs(g) : r[1] = n /\ EdgeEnd(g, r) = 0
                /\ Near(g[1].cp1, ThirdsAlong(last, q.start_point, 1))
                /\ Near(g[1].cp2, ThirdsAlong(last, q.start_point, 2))

\* The kinds of the edges of g, node by node.
KindsOf(g) == [i \in 1..Len(g) |-> [e \in 1..Len(g[i].edges) |-> g[i].edges[e].kind]]

AllExterior(g) == \A r \in EdgeRefs(g) : EdgeAt(g, r).kind = "Exterior"

\* C29: every edge of a graph from_path returns, the closing edge included,
\* is tagged Exterior, and merge and collide keep the tag of every edge: the
\* graphs path_add builds by from_path and merge and the graph collide
\* returns have Exterior edges only, and a merge has the kinds of its two
\* graphs, in order.
C29_EdgesStayExterior ==
    caller = "path_add" =>
        /\ \A q \in BuiltPaths : AllExterior(FromPath(q))
        /\ AllExterior(side)
        /\ AllExterior(merged_path)
        /\ pc \in {"from_merged_paths1", "from_merged_paths2"} =>
               KindsOf(Merge(merged_path, side)) = KindsOf(merged_path) \o KindsOf(side)

\* collide has returned a graph made of a path from_path closed by a line
\* and a path from_path closed by dropping its last node.
C29_Witness ==
    /\ caller = "path_add" /\ pc = "loop"
    /\ Len(path1) > 0 /\ Len(path2) > 0
    /\ \E q \in AllInputPaths : Len(q.points) >= 1 /\ EndsAtStart(q)
    /\ \E q \in AllInputPaths : Len(q.points) >= 1 /\ ~EndsAtStart(q)
    /\ NumEdges(merged_path) >= 7

\* C30: merge is associative and the empty graph is its identity on both
\* sides: while path_add builds its second side, for a the graph of the
\* first side, b the graph built so far and c the graph of any path of the
\* call, (a.merge(b)).merge(c) equals a.merge(b.merge(c)), node for node
\* and edge for edge, and merging a, b or c with the empty graph on either
\* side returns it unchanged.
C30_MergeIsAssociative ==
    (caller = "path_add" /\ pc = "from_merged_paths2") =>
        /\ Merge(NewGraph, merged_path) = merged_path
        /\ Merge(merged_path, NewGraph) = merged_path
        /\ Merge(NewGraph, side) = side
        /\ Merge(side, NewGraph) = side
        /\ \A q \in AllInputPaths :
              LET c == FromPath(q)
              IN  /\ Merge(Merge(merged_path, side), c) = Merge(merged_path, Merge(side, c))
                  /\ Merge(NewGraph, c) = c
                  /\ Merge(c, NewGraph) = c

\* The first side is merged in, the second side is being built, and both
\* graphs and the graph of some path of the call have nodes.
C30_Witness ==
    /\ caller = "path_add" /\ pc = "from_merged_paths2"
    /\ NumPoints(merged_path) > 0 /\ NumPoints(side) > 0
    /\ \E q \in AllInputPaths : NumPoints(FromPath(q)) > 0

====
